---------------------------- MODULE Spec2Model ----------------------------
(***************************************************************************)
(* SalesAgent: the guardrails (src/guardrails.py) and the draft approval   *)
(* workflow of the Gradio interface (src/interface.py).                    *)
(*                                                                         *)
(* A text is a sequence of tokens, the tokens of one text being separated  *)
(* by single blanks.  A token is a word or a phrase that a regular         *)
(* expression of the program matches as a whole, or a piece of one.        *)
(* Scores in [0,1] are counted in hundredths.                              *)
(***************************************************************************)
EXTENDS Integers, Sequences, FiniteSets, TLC

VARIABLES
    guarded,            \* the text handed to a guardrail, and to which one
    lastEval,           \* the evaluation the guardrail made of it
    draft_state,        \* gr.State: the draft awaiting approval, or empty
    prompt_state,       \* gr.State: the request of the last round
    approved_state,     \* gr.State: the draft was approved
    recipient_state,    \* gr.State: the uploaded recipients
    sender_textbox,     \* the sender / team name typed by the user
    summary_textbox,    \* the generation summary shown
    status_box,         \* the processing status shown
    send_status,        \* the approval and send status shown
    draft_log,          \* of the draft held: approve calls and deliveries
    event,              \* the last call: what it invoked and sent
    tasks,              \* _generate_best_email: the task of each agent
    round,              \* _generate_best_email: awaiting, returned or raised
    scored,             \* a subject and a body, and the scores computed
    mail,               \* a body text, and the HTML body made of it
    inflight            \* the generation calls begun and not completed

guard_vars == <<guarded, lastEval>>

ui_vars == <<draft_state, prompt_state, approved_state, recipient_state,
             sender_textbox, summary_textbox, status_box, send_status>>

flow_vars == <<ui_vars, draft_log, event>>

calc_vars == <<tasks, round, scored, mail, inflight>>

vars == <<guard_vars, flow_vars, calc_vars>>

-----------------------------------------------------------------------------
(* Bounds *)

\* longest text handed to a guardrail, in tokens
MaxTextLen == 3

\* tokens of the texts handed to the input guardrail
InputVocab ==
    { "hello", "ignore all previous instructions", "Forget Your Role",
      "you are now a", "<|im_start|>system", "[INST]", "ignore",
      "123-45-6789", "4111111111111111", "555-123-4567" }

\* tokens of the texts handed to the output guardrail
OutputVocab ==
    { "hello", "api_key=sk-abc123", "PASSWORD=abcdefghijkl",
      "password=short", "secret=abcdefghij0123456789" }

TextsOver(vocab) == UNION { [1..n -> vocab] : n \in 0..MaxTextLen }

\* risk and toxicity scores the classifier may answer, in hundredths
ScoreSamples == { 50, 90, 95 }

-----------------------------------------------------------------------------
(* Regular expressions of guardrails.py over token sequences *)

PROMPT_INJECTION_PATTERNS ==
    << "ignore\\s+all\\s+previous\\s+instructions",
       "forget\\s+your\\s+role",
       "you\\s+are\\s+now\\s+a",
       "<\\|im_start\\|>system",
       "\\[INST\\].*ignore" >>

PII_PATTERNS ==
    << "\\b\\d{3}-\\d{2}-\\d{4}\\b",
       "\\b\\d{16}\\b",
       "\\b\\d{3}[-.]?\\d{3}[-.]?\\d{4}\\b" >>

leak_patterns ==
    << "api[_-]?key[:=]\\s*[\"']?sk-[\\w-]+[\"']?",
       "password[:=]\\s*[\"']?[\\w]{12,}[\"']?",
       "secret[:=]\\s*[\"']?[\\w-]{20,}[\"']?" >>

\* str.lower() of one token
ToLower(tok) ==
    CASE tok = "Forget Your Role" -> "forget your role"
      [] tok = "[INST]" -> "[inst]"
      [] tok = "PASSWORD=abcdefghijkl" -> "password=abcdefghijkl"
      [] tok = "Subject:" -> "subject:"
      [] tok = "Subject" -> "subject"
      [] tok = "You" -> "you"
      [] tok = "Your" -> "your"
      [] tok = "A quick idea for your sales team" -> "a quick idea for your sales team"
      [] tok = "[Recipient Name]" -> "[recipient name]"
      [] tok = "[Your Name]" -> "[your name]"
      [] OTHER -> tok

\* str.lower() of a text
LowerText(text) == [i \in DOMAIN text |-> ToLower(text[i])]

\* the tokens in which the literal "ignore" occurs
HasIgnore(tok) == tok \in { "ignore", "ignore all previous instructions" }

\* re.search(pattern, text) without flags: letters match in their own case
ReSearch(pattern, text) ==
    CASE pattern = PROMPT_INJECTION_PATTERNS[1] ->
            \E i \in DOMAIN text : text[i] = "ignore all previous instructions"
      [] pattern = PROMPT_INJECTION_PATTERNS[2] ->
            \E i \in DOMAIN text : text[i] = "forget your role"
      [] pattern = PROMPT_INJECTION_PATTERNS[3] ->
            \E i \in DOMAIN text : text[i] = "you are now a"
      [] pattern = PROMPT_INJECTION_PATTERNS[4] ->
            \E i \in DOMAIN text : text[i] = "<|im_start|>system"
      [] pattern = PROMPT_INJECTION_PATTERNS[5] ->
            \E i, j \in DOMAIN text :
                i < j /\ text[i] = "[INST]" /\ HasIgnore(text[j])
      [] pattern = PII_PATTERNS[1] ->
            \E i \in DOMAIN text : text[i] = "123-45-6789"
      [] pattern = PII_PATTERNS[2] ->
            \E i \in DOMAIN text : text[i] = "4111111111111111"
      [] pattern = PII_PATTERNS[3] ->
            \E i \in DOMAIN text : text[i] = "555-123-4567"
      [] pattern = leak_patterns[1] ->
            \E i \in DOMAIN text : text[i] = "api_key=sk-abc123"
      [] pattern = leak_patterns[2] ->
            \E i \in DOMAIN text : text[i] = "password=abcdefghijkl"
      [] pattern = leak_patterns[3] ->
            \E i \in DOMAIN text : text[i] = "secret=abcdefghij0123456789"
      [] OTHER -> FALSE

\* re.search(pattern, text, re.IGNORECASE): letters match in either case
ReSearchI(pattern, text) ==
    IF pattern = PROMPT_INJECTION_PATTERNS[5]
    THEN \E i, j \in DOMAIN text :
            i < j /\ ToLower(text[i]) = "[inst]" /\ HasIgnore(ToLower(text[j]))
    ELSE ReSearch(pattern, LowerText(text))

\* the elements of a sequence of patterns, as a set
PatternSet(patterns) == { patterns[i] : i \in DOMAIN patterns }

-----------------------------------------------------------------------------
(* Heuristic checks *)

InjectionIssue(pattern) == << "Detected pattern: ", pattern >>

PIIIssue(pattern) == << "Found PII matching pattern: ", pattern >>

\* the second component of heuristic_injection_check(text)
heuristic_injection_check(text) ==
    LET text_lower == LowerText(text)
        hits == SelectSeq(PROMPT_INJECTION_PATTERNS,
                          LAMBDA p : ReSearch(p, text_lower))
    IN  [i \in DOMAIN hits |-> InjectionIssue(hits[i])]

\* the second component of heuristic_pii_check(text)
heuristic_pii_check(text) ==
    LET hits == SelectSeq(PII_PATTERNS, LAMBDA p : ReSearch(p, text))
    IN  [i \in DOMAIN hits |-> PIIIssue(hits[i])]

-----------------------------------------------------------------------------
(* The secondary, model-based opinion: Runner.run(<guardrail agent>, text) *)

\* an absent value (None) is the empty sequence, a present one a 1-tuple
None == << >>

Some(v) == << v >>

\* the answers of input_guardrail_agent that the evaluation reads
InputGuardrailOutput ==
    [ is_safe : BOOLEAN, is_prompt_injection : BOOLEAN,
      risk_score : ScoreSamples,
      flagged_issues : { << >>, << << "llm: ", "suspicious request" >> >> } ]

\* the answers of output_guardrail_agent that the evaluation reads
OutputGuardrailOutput ==
    [ is_safe : BOOLEAN, contains_sensitive_data : BOOLEAN,
      toxicity_score : ScoreSamples,
      redacted_output : { None, Some(<< "[REDACTED]" >>) } ]

\* Runner.run either raises (None) or returns a final_output
RunnerOutcomes(outputs) == { None } \cup { Some(o) : o \in outputs }

-----------------------------------------------------------------------------
(* comprehensive_input_guardrail *)

\* BlocksOnInjection with the threshold of an earlier revision (> 2)
BlocksOnInjection_gt2(injection_issues) ==
    Len(injection_issues) > 0 /\ Len(injection_issues) > 2

\* the early return on several injection patterns
BlocksOnInjection(injection_issues) ==
    Len(injection_issues) > 0 /\ Len(injection_issues) > 1

\* whether the model-based check runs
InputNeedsLLM(has_injection, has_pii) == has_injection \/ has_pii

\* InputLLMShouldBlock with the threshold of an earlier revision (0.7)
InputLLMShouldBlock_070(guardrail_output) ==
    /\ ~guardrail_output.is_safe
    /\ guardrail_output.risk_score > 70
    /\ guardrail_output.is_prompt_injection

\* should_block from the answer of the model-based check
InputLLMShouldBlock(guardrail_output) ==
    /\ ~guardrail_output.is_safe
    /\ guardrail_output.risk_score > 90
    /\ guardrail_output.is_prompt_injection

\* InputRiskScore with a floor of 0.1 for an input nothing was found in
InputRiskScore_floor(guardrail_result) ==
    IF guardrail_result # None THEN guardrail_result[1].risk_score ELSE 10

\* guardrail_output.risk_score if guardrail_output else 0
InputRiskScore(guardrail_result) ==
    IF guardrail_result # None THEN guardrail_result[1].risk_score ELSE 0

\* One evaluation of a request: what it returns or that it raised, and the
\* number of calls of the model-based check it made.
comprehensive_input_guardrail(message, run) ==
    LET injection_issues == heuristic_injection_check(message)
        pii_issues == heuristic_pii_check(message)
        has_injection == Len(injection_issues) > 0
        has_pii == Len(pii_issues) > 0
        issues == (IF has_injection THEN injection_issues ELSE << >>)
                  \o (IF has_pii THEN pii_issues ELSE << >>)
        Verdict(guardrail_result, all_issues, should_block) ==
            [ output_info |->
                [ branch |-> "evaluated",
                  guardrail_result |-> guardrail_result,
                  heuristic_issues |-> issues,
                  all_issues |-> all_issues,
                  risk_score |-> InputRiskScore(guardrail_result) ],
              tripwire_triggered |-> should_block ]
    IN  IF BlocksOnInjection(injection_issues)
        THEN [ status |-> "returned", llm_calls |-> 0,
               result |-> Some(
                 [ output_info |->
                     [ branch |-> "blocked",
                       blocked |-> TRUE,
                       reason |-> "Multiple prompt injection patterns detected",
                       issues |-> issues ],
                   tripwire_triggered |-> TRUE ]) ]
        ELSE IF InputNeedsLLM(has_injection, has_pii)
        THEN IF run = None
             THEN [ status |-> "raised", llm_calls |-> 1, result |-> None ]
             ELSE [ status |-> "returned", llm_calls |-> 1,
                    result |-> Some(Verdict(run,
                                            issues \o run[1].flagged_issues,
                                            InputLLMShouldBlock(run[1]))) ]
        ELSE [ status |-> "returned", llm_calls |-> 0,
               result |-> Some(Verdict(None, issues, FALSE)) ]

-----------------------------------------------------------------------------
(* comprehensive_output_guardrail *)

\* detected_leaks
DetectedLeaks(output_text) ==
    SelectSeq(leak_patterns, LAMBDA p : ReSearchI(p, output_text))

\* OutputNeedsLLM that does not skip the check of a clean output
OutputNeedsLLM_always(detected_leaks) == Len(detected_leaks) >= 0

\* whether the model-based check of the output runs
OutputNeedsLLM(detected_leaks) == Len(detected_leaks) > 0

\* should_block from the answer of the model-based check and the leaks
OutputLLMShouldBlock(guardrail_output, detected_leaks) ==
    \/ ~guardrail_output.is_safe
    \/ guardrail_output.contains_sensitive_data
    \/ guardrail_output.toxicity_score > 90
    \/ Len(detected_leaks) > 0

\* final_output
FinalOutput(output, guardrail_result) ==
    IF /\ guardrail_result # None
       /\ guardrail_result[1].contains_sensitive_data
       /\ guardrail_result[1].redacted_output # None
    THEN guardrail_result[1].redacted_output[1]
    ELSE output

comprehensive_output_guardrail(output, run) ==
    LET detected_leaks == DetectedLeaks(output)
        Verdict(guardrail_result, should_block) ==
            [ output_info |->
                [ guardrail_result |-> guardrail_result,
                  detected_leaks |-> detected_leaks,
                  toxicity_score |->
                      IF guardrail_result # None
                      THEN guardrail_result[1].toxicity_score ELSE 0,
                  final_output |-> FinalOutput(output, guardrail_result) ],
              tripwire_triggered |-> should_block ]
    IN  IF OutputNeedsLLM(detected_leaks)
        THEN IF run = None
             THEN [ status |-> "raised", llm_calls |-> 1, result |-> None ]
             ELSE [ status |-> "returned", llm_calls |-> 1,
                    result |-> Some(Verdict(run,
                                 OutputLLMShouldBlock(run[1], detected_leaks))) ]
        ELSE [ status |-> "returned", llm_calls |-> 0,
               result |-> Some(Verdict(None, FALSE)) ]

-----------------------------------------------------------------------------
(* The record of an evaluation *)

NotEvaluated == [ side |-> "none", status |-> "none", text |-> << >>,
                  llm_calls |-> 0, result |-> None ]

Evaluation(side, text, outcome) ==
    [ side |-> side, status |-> outcome.status, text |-> text,
      llm_calls |-> outcome.llm_calls, result |-> outcome.result ]

-----------------------------------------------------------------------------
(* Texts of interface.py: requests, agent outputs, drafts *)

\* the tokens that are white space
IsSpace(tok) == tok \in { " ", "\n", "\n\n" }

\* the tokens that end a line
IsNewline(tok) == tok \in { "\n", "\n\n" }

\* the positions of a text that do not hold white space
Solid(text) == { i \in DOMAIN text : ~IsSpace(text[i]) }

Min(S) == CHOOSE x \in S : \A y \in S : x <= y

Max(S) == CHOOSE x \in S : \A y \in S : x >= y

\* str.strip()
Strip(text) ==
    IF Solid(text) = {} THEN << >>
    ELSE SubSeq(text, Min(Solid(text)), Max(Solid(text)))

\* the text after position i
Tail_(text, i) == SubSeq(text, i + 1, Len(text))

\* the tokens that are a markdown code fence (three backquotes, and a language)
IsFence(tok) == tok \in { "<fence>", "<fence>json" }

\* _strip_code_fences
_strip_code_fences(text) ==
    LET stripped == Strip(text)
    IN  IF stripped # << >> /\ IsFence(stripped[1])
        THEN LET lines == Tail_(stripped, 1)
                 inner == IF lines # << >> /\ IsFence(lines[Len(lines)])
                          THEN SubSeq(lines, 1, Len(lines) - 1)
                          ELSE lines
             IN  Strip(inner)
        ELSE stripped

\* JSON values: a string, a number, a list of strings, or null / a missing key
JStr(text) == [ t |-> "str", v |-> text, items |-> << >> ]

JInt == [ t |-> "int", v |-> << >>, items |-> << >> ]

JList(items) == [ t |-> "list", v |-> << >>, items |-> items ]

JNull == [ t |-> "null", v |-> << >>, items |-> << >> ]

\* the agent outputs that are JSON documents
JsonTokens ==
    { "{\"subject\": \"Quick idea\", \"body\": \"Can you call\"}",
      "{\"subject\": 5, \"body\": \"Hi\"}",
      "{\"title\": \"Quick idea\", \"body\": [\"Hi\", \"your demo\"]}",
      "{\"subject\": \"\", \"body\": \"\"}",
      "[1, 2]" }

\* json.loads of a JSON document: whether it is an object, and of an object
\* the first truthy value among its subject keys and among its body keys
JsonLoads(tok) ==
    CASE tok = "{\"subject\": \"Quick idea\", \"body\": \"Can you call\"}" ->
            [ is_dict |-> TRUE, subject |-> JStr(<< "Quick", "idea" >>),
              body |-> JStr(<< "Can", "you", "call" >>) ]
      [] tok = "{\"subject\": 5, \"body\": \"Hi\"}" ->
            [ is_dict |-> TRUE, subject |-> JInt, body |-> JStr(<< "Hi" >>) ]
      [] tok = "{\"title\": \"Quick idea\", \"body\": [\"Hi\", \"your demo\"]}" ->
            [ is_dict |-> TRUE, subject |-> JStr(<< "Quick", "idea" >>),
              body |-> JList(<< << "Hi" >>, << "your", "demo" >> >>) ]
      [] tok = "{\"subject\": \"\", \"body\": \"\"}" ->
            [ is_dict |-> TRUE, subject |-> JStr(<< >>), body |-> JStr(<< >>) ]
      [] OTHER ->
            [ is_dict |-> FALSE, subject |-> JNull, body |-> JNull ]

\* bool(value)
Truthy(jv) ==
    CASE jv.t = "str" -> jv.v # << >>
      [] jv.t = "int" -> TRUE
      [] jv.t = "list" -> jv.items # << >>
      [] OTHER -> FALSE

RECURSIVE JoinParagraphs(_)
\* "\n\n".join(items)
JoinParagraphs(items) ==
    IF items = << >> THEN << >>
    ELSE IF Len(items) = 1 THEN items[1]
    ELSE items[1] \o << "\n\n" >> \o JoinParagraphs(Tail(items))

\* a line of the text starts at position i
AtLineStart(text, i) == i = 1 \/ IsNewline(text[i - 1])

\* the positions where  ^subject(?:\s+line)?\s*[:\-]\s*(.+)$  matches
SubjectMatchStarts(text) ==
    { i \in DOMAIN text :
        /\ AtLineStart(text, i)
        /\ ToLower(text[i]) = "subject:"
        /\ \E k \in Solid(text) : k > i }

\* subject and body after the JSON step: the fields of a JSON object, a
\* list body joined, and None for anything else
ParseJson(candidate) ==
    LET data == IF Len(candidate) = 1 /\ candidate[1] \in JsonTokens
                THEN JsonLoads(candidate[1]) ELSE JsonLoads("")
    IN  IF ~data.is_dict THEN [ subject |-> JNull, body |-> JNull ]
        ELSE IF data.body.t = "list"
        THEN [ subject |-> data.subject,
               body |-> JStr(JoinParagraphs(data.body.items)) ]
        ELSE [ subject |-> data.subject, body |-> data.body ]

\* subject and body after the "if not subject" step: the first subject line
\* gives the subject, and the text after it the body unless it is empty
ParseSubjectLine(cleaned, found) ==
    LET starts == SubjectMatchStarts(cleaned)
        g_first == Min({ k \in Solid(cleaned) : k > Min(starts) })
        line_ends == { k \in DOMAIN cleaned : k > g_first /\ IsNewline(cleaned[k]) }
        m_end == IF line_ends = {} THEN Len(cleaned) ELSE Min(line_ends) - 1
        after_subject == Strip(Tail_(cleaned, m_end))
    IN  IF Truthy(found.subject) \/ starts = {} THEN found
        ELSE [ subject |-> JStr(Strip(SubSeq(cleaned, g_first, m_end))),
               body |-> IF after_subject # << >>
                        THEN JStr(after_subject) ELSE found.body ]

\* subject and body after the "if not body" step: a first block that starts
\* with "subject" gives the subject and the rest the body, and the whole
\* text is the body when there is still none
ParseFirstBlock(cleaned, found) ==
    LET breaks == { k \in DOMAIN cleaned : cleaned[k] = "\n\n" }
        first_block == SubSeq(cleaned, 1, Min(breaks) - 1)
        rest == Strip(Tail_(cleaned, Min(breaks)))
        split_subject == IF ToLower(first_block[1]) = "subject:"
                         THEN Strip(Tail_(first_block, 1))
                         ELSE Strip(first_block)
    IN  IF Truthy(found.body) THEN found
        ELSE IF /\ breaks # {}
                /\ first_block # << >>
                /\ ToLower(first_block[1]) \in { "subject", "subject:" }
                /\ ~Truthy(found.subject)
        THEN [ subject |-> IF split_subject # << >>
                           THEN JStr(split_subject) ELSE found.subject,
               body |-> IF rest # << >> THEN JStr(rest) ELSE JStr(cleaned) ]
        ELSE [ subject |-> found.subject, body |-> JStr(cleaned) ]

\* subject or default_subject
ParseDefault(found) ==
    IF Truthy(found.subject) THEN found
    ELSE [ subject |-> JStr(<< "Sales", "Email" >>), body |-> found.body ]

\* _parse_agent_email_output(cleaned), cleaned being agent_output.strip()
ParseCleaned(cleaned) ==
    ParseDefault(
        ParseFirstBlock(cleaned,
            ParseSubjectLine(cleaned,
                ParseJson(_strip_code_fences(cleaned)))))

\* _parse_agent_email_output: the subject and the body as JSON values
_parse_agent_email_output(agent_output) == ParseCleaned(Strip(agent_output))

\* _is_valid_email_content on strings
_is_valid_email_content(subject, body) ==
    Strip(subject) # << >> /\ Strip(body) # << >>

\* _validate_email_content: the stripped strings, or the exception raised
\* (ValueError for unusable text, AttributeError for a value without strip())
_validate_email_content(parsed) ==
    IF (Truthy(parsed.subject) /\ parsed.subject.t # "str")
       \/ (Truthy(parsed.subject) /\ Strip(parsed.subject.v) # << >>
           /\ Truthy(parsed.body) /\ parsed.body.t # "str")
    THEN [ ok |-> FALSE, error |-> "AttributeError",
           subject |-> << >>, body |-> << >> ]
    ELSE IF ~_is_valid_email_content(parsed.subject.v, parsed.body.v)
    THEN [ ok |-> FALSE, error |-> "ValueError",
           subject |-> << >>, body |-> << >> ]
    ELSE [ ok |-> TRUE, error |-> "",
           subject |-> Strip(parsed.subject.v), body |-> Strip(parsed.body.v) ]

-----------------------------------------------------------------------------
(* _score_email, in hundredths of a point *)

\* len(token)
TokenChars(tok) ==
    CASE tok \in { "\n" } -> 1
      [] tok \in { "Hi", "\n\n" } -> 2
      [] tok \in { "Can", "you", "You" } -> 3
      [] tok \in { "idea", "your", "Your", "call", "demo" } -> 4
      [] tok \in { "Quick", "Sales", "Email" } -> 5
      [] tok \in { "[1, 2]" } -> 6
      [] tok \in { "Subject:" } -> 8
      [] tok \in { "api_key=sk-abc123" } -> 17
      [] tok \in { "A quick idea for your sales team" } -> 32
      [] tok \in { "lorem ipsum (75 words)" } -> 449
      [] OTHER -> 10

\* len(token.split())
TokenWords(tok) ==
    CASE IsSpace(tok) -> 0
      [] tok \in { "[1, 2]" } -> 2
      [] tok \in { "{\"subject\": \"\", \"body\": \"\"}" } -> 4
      [] tok \in { "A quick idea for your sales team" } -> 7
      [] tok \in { "lorem ipsum (75 words)" } -> 75
      [] OTHER -> 1

\* token.lower().count("you") + token.lower().count("your")
TokenYouHits(tok) ==
    CASE ToLower(tok) \in { "you" } -> 1
      [] ToLower(tok) \in { "your", "a quick idea for your sales team" } -> 2
      [] OTHER -> 0

\* whether a keyword of CTA_KEYWORDS occurs in token.lower()
TokenHasCTA(tok) == ToLower(tok) \in { "call", "demo" }

RECURSIVE CharLen(_)
\* len(text): the tokens, and a blank between two tokens on one line
CharLen(text) ==
    IF text = << >> THEN 0
    ELSE TokenChars(text[1]) + CharLen(Tail(text))
         + (IF Len(text) > 1 /\ ~IsSpace(text[1]) /\ ~IsSpace(text[2])
            THEN 1 ELSE 0)

RECURSIVE WordCount(_)
\* len(text.split())
WordCount(text) ==
    IF text = << >> THEN 0 ELSE TokenWords(text[1]) + WordCount(Tail(text))

RECURSIVE YouHits(_)
\* sum(text.lower().count(term) for term in ("you", "your"))
YouHits(text) ==
    IF text = << >> THEN 0 ELSE TokenYouHits(text[1]) + YouHits(Tail(text))

\* text.count("\n\n")
BreakCount(text) == Cardinality({ i \in DOMAIN text : text[i] = "\n\n" })

Abs(n) == IF n < 0 THEN -n ELSE n

\* the score of the measures of a draft
ScoreOf(subject_length, word_count, paragraph_count, personalization_hits, has_cta) ==
    (IF subject_length > 0
     THEN 2500 + (IF 25 <= subject_length /\ subject_length <= 80 THEN 500 ELSE 0)
     ELSE 0)
    + (IF 80 <= word_count /\ word_count <= 220
       THEN 3500
       ELSE LET fit == 3500 - 20 * Abs(150 - word_count)
            IN  IF fit > 1000 THEN fit ELSE 1000)
    + (IF paragraph_count >= 3 THEN 1000
       ELSE IF paragraph_count = 2 THEN 600 ELSE 0)
    + (IF personalization_hits * 200 < 1000
       THEN personalization_hits * 200 ELSE 1000)
    + (IF has_cta THEN 1000 ELSE 0)

_score_email(subject, body) ==
    ScoreOf(CharLen(Strip(subject)),
            WordCount(body),
            IF BreakCount(body) + 1 > 1 THEN BreakCount(body) + 1 ELSE 1,
            YouHits(body),
            \E i \in DOMAIN body : TokenHasCTA(body[i]))

-----------------------------------------------------------------------------
(* Formatting for delivery *)

\* an escape that leaves every token as it is
HtmlEscape_none(tok) == tok

\* html.escape(token)
HtmlEscape(tok) ==
    CASE tok = "R&D" -> "R&amp;D"
      [] tok = "<p>" -> "&lt;p&gt;"
      [] tok = "</p>" -> "&lt;/p&gt;"
      [] tok = "<b>Hi</b>" -> "&lt;b&gt;Hi&lt;/b&gt;"
      [] OTHER -> tok

\* escape(block).replace('\n', '<br>')
EscapeBlock(block) ==
    [i \in DOMAIN block |->
        IF block[i] = "\n" THEN "<br>" ELSE HtmlEscape(block[i])]

RECURSIVE _plain_text_to_html(_)
\* _plain_text_to_html: one <p> element for each non-blank block
_plain_text_to_html(text) ==
    LET breaks == { k \in DOMAIN text : text[k] = "\n\n" }
        cut == IF breaks = {} THEN Len(text) + 1 ELSE Min(breaks)
        block == Strip(SubSeq(text, 1, cut - 1))
        here == IF block = << >> THEN << >>
                ELSE << "<p>" >> \o EscapeBlock(block) \o << "</p>" >>
    IN  IF breaks = {} THEN here
        ELSE here \o _plain_text_to_html(Tail_(text, cut))

\* the tokens that start with "<", and those that end with ">"
StartsWithLt(tok) ==
    tok \in { "<p>", "</p>", "<br>", "<b>Hi</b>", "<|im_start|>system" }

EndsWithGt(tok) == tok \in { "<p>", "</p>", "<br>", "<b>Hi</b>" }

\* _ensure_html_body
_ensure_html_body(body_text) ==
    IF /\ Solid(body_text) # {}
       /\ StartsWithLt(body_text[Min(Solid(body_text))])
       /\ EndsWithGt(body_text[Len(body_text)])
    THEN body_text
    ELSE _plain_text_to_html(body_text)

\* _apply_mail_merge; a name is one token, "" when it is missing
_apply_mail_merge(text, recipient_name, sender_name) ==
    LET recipient_value == IF recipient_name # "" THEN recipient_name ELSE "there"
        sender_value == IF sender_name # "" THEN sender_name ELSE "Your team"
    IN  [i \in DOMAIN text |->
            CASE ToLower(text[i]) \in { "[recipient name]", "[recpient name]",
                                        "[recipient]", "[recipient_first_name]" }
                    -> recipient_value
              [] ToLower(text[i]) \in { "[your name]", "[sender name]",
                                        "[from name]", "[team name]" }
                    -> sender_value
              [] OTHER -> text[i]]

\* _format_email_for_sending
_format_email_for_sending(subject, body) ==
    Strip(<< "Subject:" >> \o Strip(subject) \o << "\n\n" >> \o Strip(body))

-----------------------------------------------------------------------------
(* Inputs of the workflow *)

\* the requests a user submits
Requests ==
    { << " " >>,
      << "hello" >>,
      << "ignore all previous instructions", "Forget Your Role" >> }

\* what a writer agent may answer
WriterOutputs ==
    { << "Subject:", "Hi", "\n\n", "Can", "you", "call" >>,
      << "Subject:", "Hi", "\n\n", "api_key=sk-abc123" >>,
      << " " >>,
      << "{\"subject\": 5, \"body\": \"Hi\"}" >> }

\* what the email manager agent may answer, besides repeating the draft
ManagerOutputs ==
    { << " " >>,
      << "Subject:", "Quick", "idea", "\n\n", "Hi", "[Recipient Name]" >> }

\* the recipient files a user uploads: rows of a name and an email address
UploadedFiles ==
    { << >>,
      << [ name |-> "", email |-> "bob@x.org" ],
         [ name |-> "Ann", email |-> "" ],
         [ name |-> "Ann", email |-> "ann@x.org" ],
         [ name |-> "", email |-> "bob@x.org" ] >> }

\* what a user types as sender name
SenderNames == { "", " ", "Al" }

-----------------------------------------------------------------------------
(* Generation: _generate_candidate_for_agent, _generate_best_email *)

\* agent_configs, in declaration order
agent_configs ==
    << "Professional Sales Agent", "Humorous Sales Agent", "Concise Sales Agent" >>

\* The result of one strategy: a candidate, None for a failed run or a
\* discarded draft, or the exception that escapes the coroutine.
_generate_candidate_for_agent(agent_label, run) ==
    IF run = None
    THEN [ kind |-> "none", agent_name |-> agent_label, subject |-> << >>,
           body |-> << >>, raw_output |-> << >>, score |-> 0 ]
    ELSE LET valid == _validate_email_content(_parse_agent_email_output(run[1]))
         IN  IF valid.ok
             THEN [ kind |-> "candidate", agent_name |-> agent_label,
                    subject |-> valid.subject, body |-> valid.body,
                    raw_output |-> run[1],
                    score |-> _score_email(valid.subject, valid.body) ]
             ELSE IF valid.error = "ValueError"
             THEN [ kind |-> "none", agent_name |-> agent_label,
                    subject |-> << >>, body |-> << >>, raw_output |-> run[1],
                    score |-> 0 ]
             ELSE [ kind |-> "raised", agent_name |-> agent_label,
                    subject |-> << >>, body |-> << >>, raw_output |-> run[1],
                    score |-> 0 ]

\* the last candidate of maximal score
BestCandidate_last(candidates) ==
    candidates[Max({ i \in DOMAIN candidates :
                        \A j \in DOMAIN candidates :
                            candidates[j].score <= candidates[i].score })]

\* max(candidates, key=score): the first candidate of maximal score
BestCandidate(candidates) ==
    candidates[Min({ i \in DOMAIN candidates :
                        \A j \in DOMAIN candidates :
                            candidates[j].score <= candidates[i].score })]

\* _generate_best_email from the await of gather on: results[i] is what
\* the task of agent i gave; a task that raised makes gather raise
RoundResult(results) ==
    LET candidates == SelectSeq(results, LAMBDA r : r.kind = "candidate")
        failed == SelectSeq(results, LAMBDA r : r.kind = "none")
        failed_agents == [i \in DOMAIN failed |-> failed[i].agent_name]
    IN  IF \E i \in DOMAIN results : results[i].kind = "raised"
        THEN [ ok |-> FALSE, error |-> "AttributeError",
               best |-> << >>, candidates |-> << >>, failed_agents |-> << >> ]
        ELSE IF candidates = << >>
        THEN [ ok |-> FALSE,
               error |-> "All sales agents failed to produce drafts",
               best |-> << >>, candidates |-> << >>,
               failed_agents |-> failed_agents ]
        ELSE [ ok |-> TRUE, error |-> "",
               best |-> << BestCandidate(candidates) >>,
               candidates |-> candidates, failed_agents |-> failed_agents ]

\* _generate_best_email; runs[i] is what Runner.run gives for agent i
_generate_best_email(runs) ==
    RoundResult([i \in DOMAIN agent_configs |->
                    _generate_candidate_for_agent(agent_configs[i], runs[i])])

\* _compose_generation_summary: the selection, the scores, the failed agents
_compose_generation_summary(package) ==
    [ kind |-> "summary", error |-> "",
      best |-> package.best[1].agent_name,
      scores |-> [i \in DOMAIN package.candidates |->
                    << package.candidates[i].agent_name,
                       package.candidates[i].score >>],
      failed |-> package.failed_agents ]

Notice(kind) ==
    [ kind |-> kind, error |-> "", best |-> "", scores |-> << >>,
      failed |-> << >> ]

\* a failure that shows nothing of the exception
FailureNotice_blank(error) == Notice("empty")

\* the failure notice: it shows the message of the exception
FailureNotice(error) == [ Notice("failure") EXCEPT !.error = error ]

\* a message of the approval and send status box
SendNotice(kind) ==
    [ kind |-> kind, sent |-> 0, failed |-> 0, first_failure |-> "" ]

\* what Runner.run may give for each of the writer agents in a round
WriterRuns == [DOMAIN agent_configs -> RunnerOutcomes(WriterOutputs)]

\* what _generate_best_email may give in a round
RoundOutcomes == { _generate_best_email(runs) : runs \in WriterRuns }

\* the rounds of the workflow: all agents answer alike; the first answer
\* holds a key and the others fail; the first agent fails; all fail; the
\* second answer is a JSON object with a number as subject
FlowRuns ==
    LET plain == << "Subject:", "Hi", "\n\n", "Can", "you", "call" >>
        keyed == << "Subject:", "Hi", "\n\n", "api_key=sk-abc123" >>
        blank == << " " >>
        number == << "{\"subject\": 5, \"body\": \"Hi\"}" >>
    IN  { << Some(plain), Some(plain), Some(plain) >>,
          << Some(keyed), None, Some(blank) >>,
          << None, Some(plain), Some(keyed) >>,
          << None, Some(blank), None >>,
          << Some(plain), Some(number), Some(plain) >> }

\* what _generate_best_email gives in the rounds of the workflow
FlowOutcomes == { _generate_best_email(runs) : runs \in FlowRuns }

\* the six outputs of _update_status_during_processing; package is what
\* its call of _generate_best_email gives
_update_status_during_processing(message0, package) ==
    LET message == Strip(message0)
    IN  IF message = << >>
        THEN [ summary |-> Notice("empty"), status |-> "enter_request",
               prompt |-> << >>, send_status |-> SendNotice("enter_request"),
               approved |-> FALSE, draft |-> << >>, generated |-> FALSE, raised |-> "" ]
        ELSE IF package.ok
        THEN [ summary |-> _compose_generation_summary(package),
               status |-> "draft_ready",
               prompt |-> message, send_status |-> SendNotice("awaiting_approval"),
               approved |-> FALSE,
               draft |-> _format_email_for_sending(package.best[1].subject,
                                                   package.best[1].body),
               generated |-> TRUE, raised |-> package.error ]
        ELSE [ summary |-> FailureNotice(package.error), status |-> "failure",
               prompt |-> message, send_status |-> SendNotice("failure"),
               approved |-> FALSE, draft |-> << >>, generated |-> TRUE, raised |-> package.error ]

\* the six outputs of _reject_and_regenerate; package is what its call of
\* _generate_best_email gives
_reject_and_regenerate(prompt0, package) ==
    LET prompt == Strip(prompt0)
    IN  IF prompt = << >>
        THEN [ summary |-> Notice("no_previous_request"),
               status |-> "no_previous_request",
               prompt |-> << >>, send_status |-> SendNotice("no_previous_request"),
               approved |-> FALSE, draft |-> << >>, generated |-> FALSE, raised |-> "" ]
        ELSE IF package.ok
        THEN [ summary |-> _compose_generation_summary(package),
               status |-> "new_draft",
               prompt |-> prompt, send_status |-> SendNotice("awaiting_new_draft"),
               approved |-> FALSE,
               draft |-> _format_email_for_sending(package.best[1].subject,
                                                   package.best[1].body),
               generated |-> TRUE, raised |-> package.error ]
        ELSE [ summary |-> FailureNotice(package.error), status |-> "failure",
               prompt |-> prompt, send_status |-> SendNotice("failure"),
               approved |-> FALSE, draft |-> << >>, generated |-> TRUE, raised |-> package.error ]

-----------------------------------------------------------------------------
(* Delivery: _handle_recipient_upload, send_approved_email, approve *)

\* _handle_recipient_upload: the rows that have an email address
_handle_recipient_upload(rows) ==
    SelectSeq(rows, LAMBDA row : row.email # "")

\* value.strip() of a one-token name
StripName(name) == IF IsSpace(name) THEN "" ELSE name

\* what the email manager run may do: raise or answer, and call its tool
\* send_html_email on the way
ManagerRuns(email_draft) ==
    { [ raises |-> TRUE, output |-> << >>, tool_send |-> FALSE ] } \cup
    [ raises : { FALSE },
      output : ManagerOutputs \cup { email_draft },
      tool_send : BOOLEAN ]

\* the call of the transport the email manager makes through its tool
ToolCall(run) ==
    [ via |-> "tool", to |-> "", subject |-> << >>, html_body |-> run.output,
      status |-> "success" ]

\* one pass of the loop of send_approved_email: the transport call made for
\* a recipient, and the status the transport returned
SendResult(template, recipient, sender_name, status) ==
    [ via |-> "batch",
      to |-> StripName(recipient.email),
      subject |-> _apply_mail_merge(template.subject,
                        StripName(recipient.name), sender_name),
      html_body |-> _ensure_html_body(
                        _apply_mail_merge(template.body,
                            StripName(recipient.name), sender_name)),
      status |-> status ]

\* SendLoop leaving the loop at the first recipient the transport fails for
SendLoop_abort(template, recipients, sender_name, outcomes) ==
    LET bad == { i \in DOMAIN recipients : outcomes[i] # "success" }
        last == IF bad = {} THEN Len(recipients) ELSE Min(bad)
    IN  [i \in 1..last |->
            SendResult(template, recipients[i], sender_name, outcomes[i])]

\* the loop of send_approved_email over the recipients; outcomes[i] is the
\* status the transport returns for recipient i
SendLoop(template, recipients, sender_name, outcomes) ==
    [i \in DOMAIN recipients |->
        SendResult(template, recipients[i], sender_name, outcomes[i])]

\* send_approved_email after the template was parsed and validated: the
\* transport calls made and the message returned
DeliveryBatch(template, tool_calls, recipients, sender_name, outcomes) ==
    LET send_results == SendLoop(template, recipients, sender_name, outcomes)
        failure_details == SelectSeq(send_results, LAMBDA r : r.status # "success")
    IN  IF ~template.ok
        THEN [ batch_ran |-> FALSE, calls |-> tool_calls,
               message |-> SendNotice("error_sending") ]
        ELSE [ batch_ran |-> TRUE, calls |-> tool_calls \o send_results,
               message |->
                 IF failure_details # << >>
                 THEN [ kind |-> "sent_with_failures",
                        sent |-> Len(send_results) - Len(failure_details),
                        failed |-> Len(failure_details),
                        first_failure |-> failure_details[1].to ]
                 ELSE [ kind |-> "sent", sent |-> Len(send_results),
                        failed |-> 0, first_failure |-> "" ] ]

\* send_approved_email: the email manager run, then the delivery loop
send_approved_email(email_draft, recipients, sender_name, run, outcomes) ==
    DeliveryBatch(
        _validate_email_content(_parse_agent_email_output(
            IF run.raises THEN email_draft ELSE run.output)),
        IF run.tool_send THEN << ToolCall(run) >> ELSE << >>,
        recipients, sender_name, outcomes)

\* Refuse marking the draft approved whatever the reason
Refuse_approves(kind, approved) ==
    [ send_status |-> SendNotice(kind), approved |-> TRUE,
      batch_ran |-> FALSE, calls |-> << >> ]

\* the outputs of _approve_and_send_callback when it refuses to send
Refuse(kind, approved) ==
    [ send_status |-> SendNotice(kind), approved |-> approved,
      batch_ran |-> FALSE, calls |-> << >> ]

\* the outputs of _approve_and_send_callback after send_approved_email
\* returned
Sent(sending) ==
    [ send_status |-> sending.message, approved |-> TRUE,
      batch_ran |-> sending.batch_ran, calls |-> sending.calls ]

\* _approve_and_send_callback: the two outputs, and what was sent
_approve_and_send_callback(email_draft, already_approved, recipients, sender_name, run, outcomes) ==
    IF already_approved THEN Refuse("already_approved", TRUE)
    ELSE IF Strip(email_draft) = << >> THEN Refuse("no_draft", FALSE)
    ELSE IF recipients = << >> THEN Refuse("no_recipients", FALSE)
    ELSE IF StripName(sender_name) = "" THEN Refuse("no_sender", FALSE)
    ELSE Sent(send_approved_email(email_draft, recipients,
                                  StripName(sender_name), run, outcomes))

-----------------------------------------------------------------------------
(* The interface: launch_interface and its event listeners                 *)
(* A step is one completed call of a listener: it reads its input          *)
(* components and writes its output components.                            *)

\* what a call did: the request handed to the writer agents, the agents
\* invoked, the exception _generate_best_email raised, whether the delivery
\* loop ran, and the calls of the transport
Event(call, message, invoked, raised, batch_ran, calls) ==
    [ call |-> call, message |-> message, invoked |-> invoked,
      raised |-> raised, batch_ran |-> batch_ran, calls |-> calls ]

\* of a new draft: no approve call yet, not delivered yet
NewDraft == [ approves |-> 0, delivered |-> 0 ]

Idle ==
    /\ draft_state = << >>
    /\ prompt_state = << >>
    /\ approved_state = FALSE
    /\ recipient_state = << >>
    /\ sender_textbox = ""
    /\ summary_textbox = Notice("empty")
    /\ status_box = ""
    /\ send_status = SendNotice("")
    /\ draft_log = NewDraft
    /\ event = Event("none", << >>, {}, "", FALSE, << >>)

\* no round of generation under way
NoRound ==
    /\ tasks = << >>
    /\ round = [ state |-> "none", package |-> << >> ]

\* nothing handed to _score_email
NoScore == scored = [ subject |-> << >>, body |-> << >>, scores |-> << >> ]

\* nothing handed to _ensure_html_body
NoMail == mail = [ body_text |-> << >>, html_body |-> None ]

\* no generation call begun
NoCalls == inflight = << >>

Init ==
    /\ Idle
    /\ NoRound
    /\ NoScore
    /\ NoMail
    /\ NoCalls
    /\ guarded = [ side |-> "input", text |-> << >> ]
    /\ lastEval = NotEvaluated

\* counting up to two
Bump(n) == IF n < 2 THEN n + 1 ELSE 2

\* recipient_upload.upload: _handle_recipient_upload
Upload ==
    /\ \E rows \in UploadedFiles :
        recipient_state' = _handle_recipient_upload(rows)
    /\ event' = Event("upload", << >>, {}, "", FALSE, << >>)
    /\ UNCHANGED <<guard_vars, calc_vars, draft_state, prompt_state, approved_state,
                   sender_textbox, summary_textbox, status_box, send_status,
                   draft_log>>

\* the user edits sender_textbox
TypeSender ==
    /\ \E name \in SenderNames : sender_textbox' = name
    /\ event' = Event("type", << >>, {}, "", FALSE, << >>)
    /\ UNCHANGED <<guard_vars, calc_vars, draft_state, prompt_state, approved_state,
                   recipient_state, summary_textbox, status_box, send_status,
                   draft_log>>

\* the six outputs of a generation call are written to their components
RoundOutputs(call, out, message) ==
    /\ summary_textbox' = out.summary
    /\ status_box' = out.status
    /\ prompt_state' = out.prompt
    /\ send_status' = out.send_status
    /\ approved_state' = out.approved
    /\ draft_state' = out.draft
    /\ draft_log' = NewDraft
    /\ event' = Event(call, message,
                      IF out.generated
                      THEN { agent_configs[i] : i \in DOMAIN agent_configs }
                      ELSE {},
                      out.raised, FALSE, << >>)

\* a generation call made with no other call under way
WriteRound(call, out, message) ==
    /\ RoundOutputs(call, out, message)
    /\ UNCHANGED <<guard_vars, calc_vars, recipient_state, sender_textbox>>

\* submit_btn.click: _update_status_during_processing on input_textbox
Submit ==
    \E message \in Requests, package \in FlowOutcomes :
        /\ WriteRound("submit",
                      _update_status_during_processing(message, package),
                      Strip(message))

\* reject_btn.click: _reject_and_regenerate on prompt_state
Reject ==
    \E package \in FlowOutcomes :
        /\ WriteRound("reject", _reject_and_regenerate(prompt_state, package),
                      Strip(prompt_state))

\* approve_btn.click: _approve_and_send_callback on the draft, the approved
\* flag, the recipients and the sender name
Approve ==
    /\ \E run \in ManagerRuns(draft_state),
          outcomes \in [DOMAIN recipient_state -> { "success", "error" }] :
        \E out \in { _approve_and_send_callback(draft_state, approved_state,
                        recipient_state, sender_textbox, run, outcomes) } :
            /\ send_status' = out.send_status
            /\ approved_state' = out.approved
            /\ draft_log' = [ approves |-> Bump(draft_log.approves),
                              delivered |-> IF out.batch_ran
                                            THEN Bump(draft_log.delivered)
                                            ELSE draft_log.delivered ]
            /\ event' = Event("approve", << >>, {}, "", out.batch_ran, out.calls)
    /\ UNCHANGED <<guard_vars, calc_vars, draft_state, prompt_state, recipient_state,
                   sender_textbox, summary_textbox, status_box>>

\* a clear that leaves the draft and the summary in place
Clear_keepsDraft ==
    /\ status_box' = ""
    /\ prompt_state' = << >>
    /\ send_status' = SendNotice("")
    /\ approved_state' = FALSE
    /\ recipient_state' = << >>
    /\ sender_textbox' = ""
    /\ draft_log' = NewDraft
    /\ event' = Event("clear", << >>, {}, "", FALSE, << >>)
    /\ UNCHANGED <<guard_vars, calc_vars, draft_state, summary_textbox>>

\* a clear that leaves the approved flag in place
Clear_keepsApproved ==
    /\ summary_textbox' = Notice("empty")
    /\ status_box' = ""
    /\ prompt_state' = << >>
    /\ send_status' = SendNotice("")
    /\ draft_state' = << >>
    /\ recipient_state' = << >>
    /\ sender_textbox' = ""
    /\ draft_log' = NewDraft
    /\ event' = Event("clear", << >>, {}, "", FALSE, << >>)
    /\ UNCHANGED <<guard_vars, calc_vars, approved_state>>

\* the outputs of _safe_clear_callback are written to their components
ClearOutputs ==
    /\ summary_textbox' = Notice("empty")
    /\ status_box' = ""
    /\ prompt_state' = << >>
    /\ send_status' = SendNotice("")
    /\ approved_state' = FALSE
    /\ draft_state' = << >>
    /\ recipient_state' = << >>
    /\ sender_textbox' = ""
    /\ draft_log' = NewDraft
    /\ event' = Event("clear", << >>, {}, "", FALSE, << >>)

\* clear_btn.click: _safe_clear_callback
Clear ==
    /\ ClearOutputs
    /\ UNCHANGED <<guard_vars, calc_vars>>

Next ==
    \/ Upload
    \/ TypeSender
    \/ Submit
    \/ Reject
    \/ Approve
    \/ Clear

Spec == Init /\ [][Next]_vars

-----------------------------------------------------------------------------
(* The guardrails as the agent runtime calls them *)

GuardInit ==
    /\ Idle
    /\ NoRound
    /\ NoScore
    /\ NoMail
    /\ NoCalls
    /\ guarded \in ([ side : { "input" }, text : TextsOver(InputVocab) ]
                    \cup [ side : { "output" }, text : TextsOver(OutputVocab) ])
    /\ lastEval = NotEvaluated

\* the runtime evaluates the request with the input guardrail
InputGuardrail ==
    /\ guarded.side = "input"
    /\ lastEval.status = "none"
    /\ \E run \in RunnerOutcomes(InputGuardrailOutput) :
        lastEval' = Evaluation("input", guarded.text,
                        comprehensive_input_guardrail(guarded.text, run))
    /\ UNCHANGED <<guarded, flow_vars, calc_vars>>

\* the runtime evaluates the generated text with the output guardrail
OutputGuardrail ==
    /\ guarded.side = "output"
    /\ lastEval.status = "none"
    /\ \E run \in RunnerOutcomes(OutputGuardrailOutput) :
        lastEval' = Evaluation("output", guarded.text,
                        comprehensive_output_guardrail(guarded.text, run))
    /\ UNCHANGED <<guarded, flow_vars, calc_vars>>

GuardNext == InputGuardrail \/ OutputGuardrail

GuardSpec == GuardInit /\ [][GuardNext]_vars

-----------------------------------------------------------------------------
(* A round of _generate_best_email on the event loop: a task per agent,    *)
(* and the await of gather on the tasks                                    *)

\* the task of agent i, created and not done
Running(i) ==
    [ kind |-> "running", agent_name |-> agent_configs[i], subject |-> << >>,
      body |-> << >>, raw_output |-> << >>, score |-> 0 ]

\* gather gives up waiting as soon as one task gave a candidate
GatherDone_first(results) ==
    \E i \in DOMAIN results : results[i].kind = "candidate"

\* gather without return_exceptions returns when every task is done
GatherDone(results) ==
    \A i \in DOMAIN results : results[i].kind # "running"

\* gather raises the first exception a task raised, without waiting
GatherRaises(results) ==
    \E i \in DOMAIN results : results[i].kind = "raised"

\* how _generate_best_email ended
Ended(package) ==
    [ state |-> IF package.ok THEN "returned" ELSE "raised",
      package |-> package ]

\* asyncio.create_task for every agent of agent_configs, then the await
RoundInit ==
    /\ Idle
    /\ NoScore
    /\ NoMail
    /\ NoCalls
    /\ guarded = [ side |-> "input", text |-> << >> ]
    /\ lastEval = NotEvaluated
    /\ tasks = [i \in DOMAIN agent_configs |-> Running(i)]
    /\ round = [ state |-> "awaiting", package |-> << >> ]

\* the task of agent i is done: Runner.run raised or answered, and the
\* answer was parsed, validated and scored
TaskSettleOf(i) ==
    /\ tasks[i].kind = "running"
    /\ \E run \in RunnerOutcomes(WriterOutputs) :
        tasks' = [tasks EXCEPT
                    ![i] = _generate_candidate_for_agent(agent_configs[i], run)]
    /\ UNCHANGED <<guard_vars, flow_vars, round, scored, mail, inflight>>

\* the task of one agent is done
TaskSettle ==
    \E i \in DOMAIN tasks :
        /\ TaskSettleOf(i)

\* every task is done and none raised: the results are partitioned and the
\* best candidate is selected, or RuntimeError is raised for no candidate
GatherReturn ==
    /\ round.state = "awaiting"
    /\ ~GatherRaises(tasks)
    /\ GatherDone(tasks)
    /\ round' = Ended(RoundResult(tasks))
    /\ UNCHANGED <<guard_vars, flow_vars, tasks, scored, mail, inflight>>

\* a task raised: the exception leaves _generate_best_email at once, while
\* the other tasks run on
GatherRaise ==
    /\ round.state = "awaiting"
    /\ GatherRaises(tasks)
    /\ round' = Ended(RoundResult(tasks))
    /\ UNCHANGED <<guard_vars, flow_vars, tasks, scored, mail, inflight>>

RoundNext == TaskSettle \/ GatherReturn \/ GatherRaise

RoundSpec == RoundInit /\ [][RoundNext]_vars

\* A round in which Runner.run of the first agent need not ever return or
\* raise, the code setting no time limit on it; the other runs end, and the
\* event loop resumes the await of gather when it can.
RoundFairSpec ==
    /\ RoundInit
    /\ [][RoundNext]_vars
    /\ \A i \in DOMAIN agent_configs \ { 1 } : WF_vars(TaskSettleOf(i))
    /\ WF_vars(GatherReturn)
    /\ WF_vars(GatherRaise)

-----------------------------------------------------------------------------
(* _score_email as a function of a subject and a body *)

\* the longest body scored, in tokens
MaxBodyLen == 5

\* the subjects scored: none, blank, short, within 25 to 80 characters, longer
ScoreSubjects ==
    { << >>,
      << " " >>,
      << "Hi" >>,
      << "A quick idea for your sales team" >>,
      << "A quick idea for your sales team", "A quick idea for your sales team",
         "A quick idea for your sales team" >> }

\* the tokens of the bodies scored; the last stands for 75 words of filler
ScoreBodyVocab == { "Hi", "you", "Your", "call", "\n\n", "lorem ipsum (75 words)" }

ScoreBodies == UNION { [1..n -> ScoreBodyVocab] : n \in 0..MaxBodyLen }

ScoreInit ==
    /\ Idle
    /\ NoRound
    /\ NoMail
    /\ NoCalls
    /\ guarded = [ side |-> "input", text |-> << >> ]
    /\ lastEval = NotEvaluated
    /\ scored \in [ subject : ScoreSubjects, body : ScoreBodies,
                    scores : { << >> } ]

\* a call of _score_email on the subject and the body; it is called twice
ScoreEmail ==
    /\ Len(scored.scores) < 2
    /\ scored' = [scored EXCEPT
                    !.scores = Append(@, _score_email(scored.subject, scored.body))]
    /\ UNCHANGED <<guard_vars, flow_vars, tasks, round, mail, inflight>>

ScoreNext == ScoreEmail

ScoreSpec == ScoreInit /\ [][ScoreNext]_vars

-----------------------------------------------------------------------------
(* _ensure_html_body as a function of a body text *)

\* the longest body text converted, in tokens
MaxMailLen == 4

\* the tokens of the body texts converted
MailVocab == { "Hi", "Buy", "R&D", "<b>Hi</b>", "<p>", "\n\n", "\n", " " }

\* a text in which line ends are written with the fewest tokens: no "\n"
\* stands before another line end
Canonical(text) ==
    \A i \in 1..(Len(text) - 1) : text[i] = "\n" => ~IsNewline(text[i + 1])

MailBodies ==
    { text \in UNION { [1..n -> MailVocab] : n \in 0..MaxMailLen } :
        Canonical(text) }

MailInit ==
    /\ Idle
    /\ NoRound
    /\ NoScore
    /\ NoCalls
    /\ guarded = [ side |-> "input", text |-> << >> ]
    /\ lastEval = NotEvaluated
    /\ mail \in [ body_text : MailBodies, html_body : { None } ]

\* a call of _ensure_html_body on the body text
EnsureHtml ==
    /\ mail.html_body = None
    /\ mail' = [mail EXCEPT !.html_body = Some(_ensure_html_body(mail.body_text))]
    /\ UNCHANGED <<guard_vars, flow_vars, tasks, round, scored, inflight>>

MailNext == EnsureHtml

MailSpec == MailInit /\ [][MailNext]_vars

-----------------------------------------------------------------------------
(* The interface with calls that overlap: a generation call reads its      *)
(* input when the listener fires, awaits the round, and writes its outputs *)
(* when the round is done; other listeners fire in between.                *)

\* the most generation calls under way at a time
MaxInFlight == 2

\* a generation call under way: the listener, the input it read, whether a
\* round was under way or a draft awaited approval when it began, and
\* whether a clear or a newer round came after it began
InFlight(call, message, overlap) ==
    [ call |-> call, message |-> message, overlap |-> overlap,
      abandoned |-> FALSE ]

\* the calls under way, all of them left behind by a clear or a newer round
Abandon(calls) == [k \in DOMAIN calls |-> [calls[k] EXCEPT !.abandoned = TRUE]]

\* a sequence without its element at place k
RemoveAt(seq, k) == SubSeq(seq, 1, k - 1) \o SubSeq(seq, k + 1, Len(seq))

\* a round is under way, or a draft is held and not approved
Busy == inflight # << >> \/ (Strip(draft_state) # << >> /\ ~approved_state)

\* submit_btn.click or input_textbox.submit fires: the request is read
BeginSubmit ==
    /\ Len(inflight) < MaxInFlight
    /\ \E message \in Requests :
        inflight' = Append(Abandon(inflight), InFlight("submit", message, Busy))
    /\ UNCHANGED <<guard_vars, flow_vars, tasks, round, scored, mail>>

\* reject_btn.click fires: prompt_state is read
BeginReject ==
    /\ Len(inflight) < MaxInFlight
    /\ inflight' = Append(Abandon(inflight), InFlight("reject", prompt_state, Busy))
    /\ UNCHANGED <<guard_vars, flow_vars, tasks, round, scored, mail>>

\* the round of a call under way is done: its six outputs are written
EndRound ==
    \E k \in DOMAIN inflight, package \in FlowOutcomes :
        /\ RoundOutputs(inflight[k].call,
                IF inflight[k].call = "submit"
                THEN _update_status_during_processing(inflight[k].message, package)
                ELSE _reject_and_regenerate(inflight[k].message, package),
                Strip(inflight[k].message))
        /\ inflight' = RemoveAt(inflight, k)
        /\ UNCHANGED <<guard_vars, recipient_state, sender_textbox,
                       tasks, round, scored, mail>>

\* clear_btn.click while calls may be under way: no call is cancelled
LiveClear ==
    /\ ClearOutputs
    /\ inflight' = Abandon(inflight)
    /\ UNCHANGED <<guard_vars, tasks, round, scored, mail>>

\* the interface after a recipient file was uploaded and a sender name
\* was typed, no call under way
LiveInit ==
    /\ draft_state = << >>
    /\ prompt_state = << >>
    /\ approved_state = FALSE
    /\ recipient_state =
          _handle_recipient_upload(<< [ name |-> "Ann", email |-> "ann@x.org" ] >>)
    /\ sender_textbox = "Al"
    /\ summary_textbox = Notice("empty")
    /\ status_box = ""
    /\ send_status = SendNotice("")
    /\ draft_log = NewDraft
    /\ event = Event("type", << >>, {}, "", FALSE, << >>)
    /\ NoRound
    /\ NoScore
    /\ NoMail
    /\ NoCalls
    /\ guarded = [ side |-> "input", text |-> << >> ]
    /\ lastEval = NotEvaluated

LiveNext ==
    \/ BeginSubmit
    \/ BeginReject
    \/ EndRound
    \/ LiveClear
    \/ Approve

LiveSpec == LiveInit /\ [][LiveNext]_vars

-----------------------------------------------------------------------------
(* What the claims speak of *)

\* the patterns of a list that occur in a text, letters in either case
MatchedPatterns(patterns, text) ==
    { p \in PatternSet(patterns) : ReSearchI(p, text) }

\* the patterns of a list that occur in the lower-cased text as written
FoundInLower(patterns, text) ==
    { p \in PatternSet(patterns) : ReSearch(p, LowerText(text)) }

InputEvaluated == lastEval.side = "input" /\ lastEval.status # "none"

OutputEvaluated == lastEval.side = "output" /\ lastEval.status # "none"

Returned == lastEval.status = "returned"

Tripwire == lastEval.result[1].tripwire_triggered

OutputInfo == lastEval.result[1].output_info

\* the classifier answered: not safe, risk above 0.9, prompt injection
ClassifierSaysExtreme ==
    /\ OutputInfo.branch = "evaluated"
    /\ OutputInfo.guardrail_result # None
    /\ ~OutputInfo.guardrail_result[1].is_safe
    /\ OutputInfo.guardrail_result[1].risk_score > 90
    /\ OutputInfo.guardrail_result[1].is_prompt_injection

\* min(1.0, 0.3 x number of PII matches), in hundredths
PIIConfidence(text) ==
    LET c == 30 * Cardinality(MatchedPatterns(PII_PATTERNS, text))
    IN  IF c > 100 THEN 100 ELSE c

-----------------------------------------------------------------------------
(* C1 *)

\* C1 as stated: whenever at least one injection pattern matches the request,
\* input evaluation blocks and never consults the classifier.
C1_AnyInjectionBlocks ==
    (InputEvaluated /\ MatchedPatterns(PROMPT_INJECTION_PATTERNS, lastEval.text) # {})
        => (Returned /\ Tripwire /\ lastEval.llm_calls = 0)

\* C1 as amended: input evaluation blocks, without consulting the classifier,
\* whenever at least two injection patterns are found in the lower-cased
\* request; when exactly one is found the classifier is consulted, and the
\* evaluation blocks only on its answer (not safe, risk > 0.9, injection).
C1_TwoInjectionsBlock ==
    InputEvaluated =>
        LET n == Cardinality(FoundInLower(PROMPT_INJECTION_PATTERNS, lastEval.text))
        IN  /\ n >= 2 => (Returned /\ Tripwire /\ lastEval.llm_calls = 0)
            /\ n = 1 => /\ lastEval.llm_calls = 1
                        /\ Returned => (Tripwire <=> ClassifierSaysExtreme)

\* two injection patterns found: blocked with no classifier call
C1_Witness ==
    /\ InputEvaluated
    /\ Cardinality(FoundInLower(PROMPT_INJECTION_PATTERNS, lastEval.text)) = 2
    /\ Returned /\ Tripwire /\ lastEval.llm_calls = 0

-----------------------------------------------------------------------------
(* C2 *)

\* C2: every request that matches two or more distinct injection patterns is
\* blocked (tripwire triggered) and reported as a prompt injection.
C2_TwoMatchesBlock ==
    (InputEvaluated
        /\ Cardinality(MatchedPatterns(PROMPT_INJECTION_PATTERNS, lastEval.text)) >= 2)
        => /\ Returned
           /\ Tripwire
           /\ OutputInfo.branch = "blocked"
           /\ OutputInfo.reason = "Multiple prompt injection patterns detected"

-----------------------------------------------------------------------------
(* C3 *)

NoPatternMatches(text) ==
    /\ MatchedPatterns(PROMPT_INJECTION_PATTERNS, text) = {}
    /\ MatchedPatterns(PII_PATTERNS, text) = {}

\* C3 as stated: a request that matches no injection and no PII pattern is
\* allowed, with risk score exactly 0.1.
C3_CleanRiskIsTenth ==
    (InputEvaluated /\ NoPatternMatches(lastEval.text))
        => (Returned /\ ~Tripwire /\ OutputInfo.risk_score = 10)

\* C3 as amended: a request that matches no injection and no PII pattern is
\* allowed, with risk score exactly 0.
C3_CleanRiskIsZero ==
    (InputEvaluated /\ NoPatternMatches(lastEval.text))
        => (Returned /\ ~Tripwire /\ OutputInfo.risk_score = 0)

\* a non-empty clean request was evaluated and allowed
C3_Witness ==
    /\ InputEvaluated
    /\ lastEval.text # << >>
    /\ NoPatternMatches(lastEval.text)
    /\ Returned /\ ~Tripwire

-----------------------------------------------------------------------------
(* C4 *)

\* C4 as stated: with no injection pattern matched, the verdict blocks if and
\* only if the PII confidence exceeds 0.7, whatever the classifier answers.
C4_BlocksOnPIIConfidence ==
    (InputEvaluated /\ Returned
        /\ MatchedPatterns(PROMPT_INJECTION_PATTERNS, lastEval.text) = {})
        => (Tripwire <=> PIIConfidence(lastEval.text) > 70)

\* C4 as amended: with no injection pattern matched, the classifier is
\* consulted exactly when a PII pattern matched, and the verdict blocks if and
\* only if it was consulted and answered not safe, risk > 0.9 and prompt
\* injection; the number of PII matches alone never blocks.
C4_BlocksOnClassifier ==
    (InputEvaluated
        /\ MatchedPatterns(PROMPT_INJECTION_PATTERNS, lastEval.text) = {})
        => /\ lastEval.llm_calls = 1
                <=> MatchedPatterns(PII_PATTERNS, lastEval.text) # {}
           /\ Returned => (Tripwire <=> (lastEval.llm_calls = 1
                                          /\ ClassifierSaysExtreme))

\* all three PII patterns matched (confidence 0.9) and the request was allowed
C4_Witness ==
    /\ InputEvaluated /\ Returned
    /\ MatchedPatterns(PROMPT_INJECTION_PATTERNS, lastEval.text) = {}
    /\ PIIConfidence(lastEval.text) > 70
    /\ ~Tripwire

-----------------------------------------------------------------------------
(* C5 *)

\* C5: output evaluation blocks and surfaces the matched patterns whenever a
\* leak pattern matches, and allows with an empty issue list otherwise.
C5_LeakBlocks ==
    OutputEvaluated =>
        LET leaks == MatchedPatterns(leak_patterns, lastEval.text)
        IN  /\ Returned
            /\ Tripwire <=> leaks # {}
            /\ PatternSet(OutputInfo.detected_leaks) = leaks

-----------------------------------------------------------------------------
(* C6 *)

\* C6: an evaluation never raises; it always returns a verdict, and the
\* verdict blocks when a step of the evaluation failed.
C6_NeverRaises ==
    lastEval.status # "none" => Returned

-----------------------------------------------------------------------------
(* C7 *)

\* C7 as stated: the classifier is consulted by input evaluation only when a
\* heuristic flagged something, and never by output evaluation.
C7_NeverOnOutput ==
    lastEval.llm_calls > 0
        => /\ lastEval.side = "input"
           /\ ~NoPatternMatches(lastEval.text)

\* C7 as amended: the classifier is consulted by input evaluation only when a
\* heuristic (injection or PII) flagged something, and by output evaluation
\* only when a leak pattern matched.
C7_OnlyWhenFlagged ==
    lastEval.llm_calls > 0
        => \/ lastEval.side = "input" /\ ~NoPatternMatches(lastEval.text)
           \/ /\ lastEval.side = "output"
              /\ MatchedPatterns(leak_patterns, lastEval.text) # {}

\* output evaluation consulted the classifier about a text with a leak
C7_Witness ==
    /\ OutputEvaluated
    /\ lastEval.llm_calls = 1
    /\ MatchedPatterns(leak_patterns, lastEval.text) # {}

-----------------------------------------------------------------------------
(* C8 *)

\* the request of the last generation call is one that input evaluation
\* blocks on its heuristics alone
BlockedRequest ==
    /\ event.call \in { "submit", "reject" }
    /\ BlocksOnInjection(heuristic_injection_check(event.message))

\* C8 as stated: a round whose request input evaluation blocks invokes no
\* writer strategy and leaves no draft awaiting approval.
C8_BlockedRoundInvokesNothing ==
    BlockedRequest => event.invoked = {} /\ draft_state = << >>

-----------------------------------------------------------------------------
(* C9 *)

\* C9 as stated: neither the draft shown for approval nor a body handed to
\* the mail transport matches a leak pattern.
C9_NoLeakSurfacedOrSent ==
    /\ MatchedPatterns(leak_patterns, draft_state) = {}
    /\ \A i \in DOMAIN event.calls :
            MatchedPatterns(leak_patterns, event.calls[i].html_body) = {}

-----------------------------------------------------------------------------
(* C10 *)

\* C10 as stated: a draft is delivered at most once, and when an approve call
\* answers "already approved" the delivery batch of the draft has run exactly
\* once.
C10_ApproveTwiceDeliversOnce ==
    /\ draft_log.delivered <= 1
    /\ (event.call = "approve" /\ send_status.kind = "already_approved")
            => draft_log.delivered = 1

-----------------------------------------------------------------------------
(* C11 *)

\* approve is called on a draft not yet approved while the draft, the
\* recipients or the sender name are missing
ApproveLacksInput ==
    /\ ~approved_state
    /\ \/ Strip(draft_state) = << >>
       \/ recipient_state = << >>
       \/ StripName(sender_textbox) = ""

\* C11: an approve call with no draft, no recipients or an empty or blank
\* sender name answers with a validation message, calls the transport not at
\* all, and leaves the draft, approved = false and the stored request as
\* they were.
C11_RefusedApproveChangesNothing ==
    [][ (event'.call = "approve" /\ ApproveLacksInput)
            => /\ send_status'.kind \in { "no_draft", "no_recipients", "no_sender" }
               /\ event'.calls = << >>
               /\ ~event'.batch_ran
               /\ approved_state' = FALSE
               /\ UNCHANGED <<draft_state, prompt_state, recipient_state>> ]_vars

\* approve was refused for a blank sender name, a draft and recipients
\* being there
C11_Witness ==
    /\ event.call = "approve"
    /\ send_status.kind = "no_sender"
    /\ sender_textbox = " "
    /\ draft_state # << >>
    /\ recipient_state # << >>
    /\ ~approved_state

-----------------------------------------------------------------------------
(* C12 *)

\* the transport calls the delivery loop of the last call made
BatchCalls == SelectSeq(event.calls, LAMBDA c : c.via = "batch")

\* the last call was an approve that set approved
ApproveSetApproved ==
    /\ event.call = "approve"
    /\ approved_state
    /\ send_status.kind # "already_approved"

\* C12 as stated: when an approve call sets approved, the delivery loop has
\* called the transport once for each recipient of the list, in order.
C12_ApprovedAfterEveryRecipient ==
    ApproveSetApproved
        => /\ Len(BatchCalls) = Len(recipient_state)
           /\ \A i \in DOMAIN BatchCalls :
                   BatchCalls[i].to = StripName(recipient_state[i].email)

-----------------------------------------------------------------------------
(* C13 *)

\* the calls of a sequence of transport calls that did not succeed
Failures(calls) == SelectSeq(calls, LAMBDA c : c.status # "success")

\* C13: when the delivery loop ran, it called the transport once for each
\* recipient of the list, in order, whatever the transport returned for the
\* others; the message counts every recipient as sent or as failed, and
\* names the first recipient the transport failed for.
C13_BatchCoversEveryRecipient ==
    (event.call = "approve" /\ event.batch_ran)
        => /\ Len(BatchCalls) = Len(recipient_state)
           /\ \A i \in DOMAIN BatchCalls :
                   BatchCalls[i].to = StripName(recipient_state[i].email)
           /\ send_status.failed = Len(Failures(BatchCalls))
           /\ send_status.sent + send_status.failed = Len(recipient_state)
           /\ IF Failures(BatchCalls) = << >>
              THEN send_status.kind = "sent"
              ELSE /\ send_status.kind = "sent_with_failures"
                   /\ send_status.first_failure = Failures(BatchCalls)[1].to

\* of three recipients the transport failed for the second only
C13_Witness ==
    /\ event.call = "approve"
    /\ event.batch_ran
    /\ Len(BatchCalls) = 3
    /\ BatchCalls[1].status = "success"
    /\ BatchCalls[2].status = "error"
    /\ BatchCalls[3].status = "success"
    /\ send_status.sent = 2
    /\ send_status.failed = 1

-----------------------------------------------------------------------------
(* C14 *)

\* the results of the tasks of a kind, in the order of agent_configs
TasksOf(kind) == SelectSeq(tasks, LAMBDA r : r.kind = kind)

\* C14: a task is created for every agent of agent_configs, and whenever
\* _generate_best_email has returned a selection no task is still running:
\* the selection was made among the candidates of all the tasks.
C14_SelectionAfterAllSettled ==
    /\ DOMAIN tasks = DOMAIN agent_configs
    /\ round.state = "returned"
        => /\ \A i \in DOMAIN tasks : tasks[i].kind # "running"
           /\ round.package.candidates = TasksOf("candidate")

\* a selection among two candidates, returned after the third task failed
C14_Witness ==
    /\ round.state = "returned"
    /\ Len(round.package.candidates) = 2
    /\ tasks[3].kind = "none"
    /\ tasks[1].kind = "candidate"

-----------------------------------------------------------------------------
(* C15, C16 *)

\* the round ended and every task is done
RoundOver ==
    /\ round.state \in { "returned", "raised" }
    /\ \A i \in DOMAIN tasks : tasks[i].kind # "running"

\* the names of the candidates a round gave
CandidateNames ==
    { round.package.candidates[j].agent_name :
        j \in DOMAIN round.package.candidates }

\* the names of the failed agents a round gave
FailedNames ==
    { round.package.failed_agents[j] : j \in DOMAIN round.package.failed_agents }

\* C15: when a round is over, every agent is either among the candidates or
\* among the failed agents, and in one of them only; it is among the
\* candidates exactly when its answer parsed to a subject and a body that
\* are not blank.
C15_EveryStrategyInOneList ==
    RoundOver
        => \A i \in DOMAIN agent_configs :
            /\ (agent_configs[i] \in CandidateNames)
                   # (agent_configs[i] \in FailedNames)
            /\ (agent_configs[i] \in CandidateNames)
                   <=> /\ tasks[i].raw_output # << >>
                       /\ LET parsed == _parse_agent_email_output(tasks[i].raw_output)
                          IN  /\ parsed.subject.t = "str"
                              /\ parsed.body.t = "str"
                              /\ Strip(parsed.subject.v) # << >>
                              /\ Strip(parsed.body.v) # << >>

\* C16: when a round is over and the task of some agent gave a valid
\* candidate, the round returned a selection, made among the candidates of
\* the tasks, whatever the other tasks gave.
C16_SingleFailureRecovered ==
    (RoundOver /\ TasksOf("candidate") # << >>)
        => /\ round.state = "returned"
           /\ round.package.candidates = TasksOf("candidate")
           /\ \E j \in DOMAIN round.package.candidates :
                   round.package.best[1] = round.package.candidates[j]

-----------------------------------------------------------------------------------------------------------------------------------------
(* C17 *)

\* the message of the RuntimeError raised when no agent gave a candidate
NoCandidates == "All sales agents failed to produce drafts"

\* a submit or a reject whose round ended with every agent failing
RoundWithoutCandidates ==
    /\ event.call \in { "submit", "reject" }
    /\ event.raised = NoCandidates

-----------------
(* C18 *)

\* the place of an agent in agent_configs
Declared(agent_name) ==
    CHOOSE i \in DOMAIN agent_configs : agent_configs[i] = agent_name

\* C18: the candidate a round selects has a score no other candidate of the
\* round exceeds, and no candidate declared before it has the same score.
C18_FirstOfMaximalScore ==
    round.state = "returned"
        => LET best == round.package.best[1]
           IN  \A i \in DOMAIN tasks :
                   tasks[i].kind = "candidate"
                       => /\ tasks[i].score <= best.score
                          /\ tasks[i].score = best.score
                                 => Declared(best.agent_name) <= i

\* the second and the third candidate share the greatest score, and the
\* second is selected
C18_Witness ==
    /\ round.state = "returned"
    /\ Len(round.package.candidates) = 3
    /\ tasks[1].score < tasks[2].score
    /\ tasks[2].score = tasks[3].score
    /\ round.package.best[1].agent_name = agent_configs[2]

-----------------------------------------------------------------------------
(* C19, C20 *)

\* the occurrences of "you" and of "your" in a body, letters in either case
Occurrences(body) ==
    Cardinality({ i \in DOMAIN body : ToLower(body[i]) \in { "you", "your" } })

\* a body with the occurrence at place k replaced by another word
WithoutOccurrence(body, k) == [body EXCEPT ![k] = "Hi"]

\* a body with every occurrence replaced by another word
Impersonal(body) ==
    [i \in DOMAIN body |->
        IF ToLower(body[i]) \in { "you", "your" } THEN "Hi" ELSE body[i]]

\* the part of the score of a body that its occurrences earn
PersonalizationTerm(subject, body) ==
    _score_email(subject, body) - _score_email(subject, Impersonal(body))

\* C19: two calls of the score on one subject and one body give one value;
\* the personalization term does not decrease when the body has one more
\* occurrence of "you" or "your", it never exceeds 10 points, and it is 10
\* points exactly for the bodies with 5 occurrences or more.
C19_PersonalizationMonotoneCapped ==
    Len(scored.scores) = 2
        => /\ scored.scores[1] = scored.scores[2]
           /\ \A k \in DOMAIN scored.body :
                   ToLower(scored.body[k]) \in { "you", "your" }
                       => PersonalizationTerm(scored.subject,
                                WithoutOccurrence(scored.body, k))
                            <= PersonalizationTerm(scored.subject, scored.body)
           /\ PersonalizationTerm(scored.subject, scored.body) <= 1000
           /\ PersonalizationTerm(scored.subject, scored.body) = 1000
                   <=> Occurrences(scored.body) >= 5

\* C20: the score is the sum of the points for the subject, for the word
\* count, for the blocks separated by double newlines, for the occurrences
\* of "you" and "your", and for a call-to-action keyword.
C20_ScoreIsSumOfParts ==
    Len(scored.scores) >= 1
        => scored.scores[1] =
              (IF scored.subject # << >>
               THEN 2500 + (IF /\ 25 <= CharLen(scored.subject)
                               /\ CharLen(scored.subject) <= 80
                            THEN 500 ELSE 0)
               ELSE 0)
              + (IF /\ 80 <= WordCount(scored.body)
                    /\ WordCount(scored.body) <= 220
                 THEN 3500
                 ELSE Max({ 1000, 3500 - 20 * Abs(150 - WordCount(scored.body)) }))
              + (IF BreakCount(scored.body) + 1 >= 3 THEN 1000
                 ELSE IF BreakCount(scored.body) + 1 = 2 THEN 600 ELSE 0)
              + Min({ 200 * Occurrences(scored.body), 1000 })
              + (IF \E i \in DOMAIN scored.body : TokenHasCTA(scored.body[i])
                 THEN 1000 ELSE 0)

-----------------------------------------------------------------------------
(* C22 *)

\* a draft is held and it is not approved
AwaitingApproval == Strip(draft_state) # << >> /\ ~approved_state

\* C22: a reject made while a draft awaits approval runs a round on the
\* stored request and leaves the draft not approved, with a new draft when
\* the round gave one; a reject made in any other state invokes no agent
\* and changes neither the draft, the approved flag nor the stored request.
C22_RejectOnlyWhenAwaitingApproval ==
    [][ event'.call = "reject"
            => IF AwaitingApproval
               THEN /\ event'.invoked # {}
                    /\ event'.message = Strip(prompt_state)
                    /\ prompt_state' = Strip(prompt_state)
                    /\ approved_state' = FALSE
                    /\ event'.raised = "" => Strip(draft_state') # << >>
               ELSE /\ event'.invoked = {}
                    /\ UNCHANGED <<draft_state, approved_state, prompt_state>>
      ]_vars

-----------------------------------------------------------------------------
(* C23 *)

\* C23: after a clear no draft is held, the draft is not approved, the
\* stored request is empty, and the summary and the status boxes show
\* nothing of a round.
C23_ClearResetsToIdle ==
    event.call = "clear"
        => /\ draft_state = << >>
           /\ approved_state = FALSE
           /\ prompt_state = << >>
           /\ summary_textbox = Notice("empty")
           /\ status_box = ""
           /\ send_status = SendNotice("")
           /\ recipient_state = << >>
           /\ sender_textbox = ""

\* a clear has been made and the workflow holds nothing
C23_Witness ==
    /\ event.call = "clear"
    /\ draft_state = << >>
    /\ summary_textbox.kind = "empty"
    /\ ENABLED (Submit /\ draft_state' # << >>)

-----------------------------------------------------------------------------
(* C28 *)

\* C28: a submit of a request that is empty or blank invokes no agent and
\* changes neither the draft, the approved flag nor the stored request.
C28_EmptySubmitChangesNothing ==
    [][ (event'.call = "submit" /\ event'.message = << >>)
            => /\ event'.invoked = {}
               /\ UNCHANGED <<draft_state, approved_state, prompt_state>>
      ]_vars

-----------------------------------------------------------------------------
(* C29 *)

\* C29: whenever the draft is approved a draft is held; and every submit,
\* reject and clear, and every call that changes the draft, leaves the draft
\* not approved.
C29_ApprovedImpliesDraft ==
    /\ [](approved_state => Strip(draft_state) # << >>)
    /\ [][ (event'.call \in { "submit", "reject", "clear" }
            \/ draft_state' # draft_state)
                => approved_state' = FALSE ]_vars

\* a draft was approved, and it is held
C29_Witness ==
    /\ approved_state
    /\ event.call = "approve"
    /\ Strip(draft_state) # << >>
    /\ draft_log.approves = 1

-----------------------------------------------------------------------------
(* C30 *)

\* the subject and the body of the draft held
DraftTemplate == _validate_email_content(_parse_agent_email_output(draft_state))

\* C30: every call of the transport the delivery loop makes for a recipient
\* carries the subject of the approved draft after mail merge, and the body
\* of the approved draft after mail merge and conversion to HTML.
C30_TransportGetsApprovedText ==
    (event.call = "approve" /\ event.batch_ran)
        => \A i \in DOMAIN BatchCalls :
              /\ BatchCalls[i].subject =
                     _apply_mail_merge(DraftTemplate.subject,
                         StripName(recipient_state[i].name),
                         StripName(sender_textbox))
              /\ BatchCalls[i].html_body =
                     _ensure_html_body(
                         _apply_mail_merge(DraftTemplate.body,
                             StripName(recipient_state[i].name),
                             StripName(sender_textbox)))

-----------------------------------------------------------------------------
(* C26 *)

\* the issues the verdict of an input evaluation carries for the heuristics
CarriedIssues ==
    LET issues == IF OutputInfo.branch = "blocked"
                  THEN OutputInfo.issues
                  ELSE OutputInfo.heuristic_issues
    IN  { issues[i] : i \in DOMAIN issues }

\* C26: the verdict of an input evaluation, blocking or not, carries an
\* issue for every injection pattern and for every PII pattern that matches
\* the request.
C26_VerdictCarriesEveryMatch ==
    (InputEvaluated /\ Returned)
        => /\ \A p \in MatchedPatterns(PROMPT_INJECTION_PATTERNS, lastEval.text) :
                   InjectionIssue(p) \in CarriedIssues
           /\ \A p \in MatchedPatterns(PII_PATTERNS, lastEval.text) :
                   PIIIssue(p) \in CarriedIssues

-----------------------------------------------------------------------------
(* C27 *)

\* the tokens that hold a character unsafe in HTML
UnsafeToken(tok) == tok \in { "R&D", "<b>Hi</b>", "<p>", "</p>" }

\* the text of an escaped token
HtmlUnescape(tok) ==
    CASE tok = "R&amp;D" -> "R&D"
      [] tok = "&lt;p&gt;" -> "<p>"
      [] tok = "&lt;/p&gt;" -> "</p>"
      [] tok = "&lt;b&gt;Hi&lt;/b&gt;" -> "<b>Hi</b>"
      [] OTHER -> tok

\* a body text reads as HTML: it starts with "<" and ends with ">"
ReadsAsHtml(text) ==
    /\ \E i \in DOMAIN text : ~IsSpace(text[i])
    /\ LET first == CHOOSE i \in DOMAIN text :
                        /\ ~IsSpace(text[i])
                        /\ \A j \in 1..(i - 1) : IsSpace(text[j])
       IN  StartsWithLt(text[first])
    /\ EndsWithGt(text[Len(text)])

\* the places of a text where a paragraph starts: after a blank line or at
\* the start, and the paragraph is not blank
ParagraphStarts(text) ==
    { i \in DOMAIN text :
        /\ text[i] # "\n\n"
        /\ i = 1 \/ text[i - 1] = "\n\n" }

\* the paragraph that starts at place i, up to the next blank line
ParagraphAt(text, i) ==
    LET later == { k \in i..Len(text) : text[k] = "\n\n" }
    IN  Strip(SubSeq(text, i, IF later = {} THEN Len(text) ELSE Min(later) - 1))

\* the elements of a set of numbers, in ascending order
RECURSIVE Ascending(_)
Ascending(S) ==
    IF S = {} THEN << >> ELSE << Min(S) >> \o Ascending(S \ { Min(S) })

\* the paragraphs of a plain text that are not blank, in order
TextParagraphs(text) ==
    LET starts == Ascending({ i \in ParagraphStarts(text) :
                                ParagraphAt(text, i) # << >> })
    IN  [n \in DOMAIN starts |-> ParagraphAt(text, starts[n])]

\* the paragraphs of an HTML body with the tags stripped: the text between
\* each paragraph tag and its end tag, a line break for each <br>
HtmlParagraphs(html) ==
    LET opens == Ascending({ i \in DOMAIN html : html[i] = "<p>" })
        CloseOf(i) == Min({ k \in i..Len(html) : html[k] = "</p>" })
        Inner(i) == SubSeq(html, i + 1, CloseOf(i) - 1)
    IN  [n \in DOMAIN opens |->
            [k \in DOMAIN Inner(opens[n]) |->
                IF Inner(opens[n])[k] = "<br>" THEN "\n"
                ELSE HtmlUnescape(Inner(opens[n])[k])]]

\* C27: a body text that starts with "<" and ends with ">" is returned as
\* it is; any other body text becomes paragraph elements in which no token
\* holds an unsafe character, every paragraph element is closed, and the
\* text of the elements is, in order, the paragraphs of the body text that
\* are not blank.
C27_HtmlKeepsParagraphs ==
    mail.html_body # None
        => LET html == mail.html_body[1]
           IN  IF ReadsAsHtml(mail.body_text)
               THEN html = mail.body_text
               ELSE /\ \A i \in DOMAIN html :
                          html[i] \in { "<p>", "</p>", "<br>" }
                              \/ ~UnsafeToken(html[i])
                    /\ Cardinality({ i \in DOMAIN html : html[i] = "<p>" })
                          = Cardinality({ i \in DOMAIN html : html[i] = "</p>" })
                    /\ HtmlParagraphs(html) = TextParagraphs(mail.body_text)

\* two paragraphs, one with a character to escape, became two elements
C27_Witness ==
    /\ mail.html_body # None
    /\ ~ReadsAsHtml(mail.body_text)
    /\ Len(TextParagraphs(mail.body_text)) = 2
    /\ \E i \in DOMAIN mail.body_text : mail.body_text[i] = "R&D"
    /\ Len(HtmlParagraphs(mail.html_body[1])) = 2

\* a body text that reads as HTML was passed through
C27_WitnessHtml ==
    /\ mail.html_body # None
    /\ ReadsAsHtml(mail.body_text)
    /\ Len(mail.body_text) = 3
    /\ mail.html_body[1] = mail.body_text

-----------------------------------------------------------------------------
(* C25 *)

\* C25: a round ends even when the run of one agent never returns: the
\* await of gather is left at some time, with a selection when the task of
\* another agent gave a valid candidate and with an error otherwise.
C25_SilentStrategyDoesNotBlock ==
    /\ <>(round.state # "awaiting")
    /\ [](round.state # "awaiting"
            => (round.state = "returned"
                    <=> \E i \in DOMAIN tasks : tasks[i].kind = "candidate"))

\* C25, the first part alone
C25_RoundEnds == <>(round.state # "awaiting")

-----------------------------------------------------------------------------
(* C21, C24 *)

\* the call at place k of the calls under way completes in this step
Completes(k) == Len(inflight') < Len(inflight) /\ inflight' = RemoveAt(inflight, k)

\* C21: a submit that began while a round was under way or a draft awaited
\* approval invokes no agent, and its completion leaves the draft, the
\* approved flag and the stored request as they were.
C21_OverlappingSubmitRejected ==
    [][ \A k \in DOMAIN inflight :
            (Completes(k) /\ inflight[k].call = "submit" /\ inflight[k].overlap)
                => /\ event'.invoked = {}
                   /\ UNCHANGED <<draft_state, approved_state, prompt_state>>
      ]_vars

\* C24: the completion of a round that a clear or a newer round has left
\* behind changes neither the draft, the approved flag nor the stored
\* request.
C24_AbandonedRoundIsNoOp ==
    [][ \A k \in DOMAIN inflight :
            (Completes(k) /\ inflight[k].abandoned)
                => UNCHANGED <<draft_state, approved_state, prompt_state>>
      ]_vars

=============================================================================
